---- MODULE Spec2Model ----
(***************************************************************************)
(* A model of computer_use_demo/tools/analyzer.py: AnalyzerTool, the       *)
(* webpage tracking analyzer.                                              *)
(*                                                                         *)
(* Text is modelled as a sequence of tokens.  A token is a fragment of     *)
(* markup or script text; a regular expression is modelled by the set of   *)
(* tokens it matches (re.search on a text = some token of the text is in   *)
(* that set; re.findall = the matching tokens in order, each mapped to     *)
(* what the expression returns for it).  An HTML document is a sequence of *)
(* elements, each with a tag name, attribute names, a src value and a      *)
(* string body.                                                            *)
(***************************************************************************)
EXTENDS Integers, Sequences, FiniteSets, TLC

\* Python's None.
None == "None"

----------------------------------------------------------------------------
(* Bounds of the model. *)

\* The longest document (number of elements) detection is run on.
MaxElems == 2

\* The str-hash seeds an interpreter process may start with are 1..MaxSeed.
MaxSeed == 2

----------------------------------------------------------------------------
(* The regular expressions of the source, as the token sets they match.    *)

\* ga_patterns["universal_analytics"], compiled with re.IGNORECASE.
UniversalAnalyticsPattern ==
    { "google-analytics.com/analytics.js", "ga(", "_gaq.push",
      "UA-11111-1", "UA-22222-2" }

\* ga_patterns["gtag"], compiled with re.IGNORECASE.
GtagPattern == { "googletagmanager.com/gtag/js?id=", "gtag(", "G-ABC123" }

\* ga_patterns["tag_manager"], compiled with re.IGNORECASE.
TagManagerPattern == { "googletagmanager.com/gtm.js?id=", "GTM-XYZ" }

ga_patterns ==
    [ universal_analytics |-> UniversalAnalyticsPattern,
      gtag |-> GtagPattern,
      tag_manager |-> TagManagerPattern ]

\* r"UA-\d+-\d+", r"G-[A-Z0-9]+", r"GTM-[A-Z0-9]+" as used by re.findall.
UaIdPattern == { "UA-11111-1", "UA-22222-2" }
Ga4IdPattern == { "G-ABC123" }
GtmIdPattern == { "GTM-XYZ" }

\* event_patterns["standard_events"] (case-sensitive, on script strings),
\* one token set per expression of the list.
StandardEventsPatterns ==
    << { "addEventListener('click'" }, { "onclick=" }, { "onsubmit=" },
       { "onchange=" } >>

\* event_patterns["analytics_events"] (case-sensitive, on script strings).
AnalyticsEventsPatterns ==
    << { "track(" }, { "trackEvent" }, { "trackPageview" }, { "trackCustom" } >>

\* event_patterns["data_attributes"].
DataAttributeMarkers == { "data-analytics", "data-track", "data-event" }

\* pixel_patterns, compiled with re.IGNORECASE and applied to src values.
pixel_patterns ==
    [ facebook |-> { "facebook.com/tr", "connect.facebook.net" },
      linkedin |-> { "px.ads.linkedin.com/px", "snap.licdn.com" },
      twitter |-> { "static.ads-twitter.com" },
      generic |-> { "google-analytics.com/analytics.js", "/img/pixel.gif",
                    "/img/soundtrack.png" } ]

\* The pixel id expressions, applied to the whole document.
FbPixelIdPattern == { "fbq('init','123')" }
LiPixelIdPattern == { "_linkedin_partner_id='456'" }
TwPixelIdPattern == { "twq('init','abc')" }

\* hotjar_patterns joined, compiled with re.IGNORECASE.
HotjarPattern ==
    { "hotjar", "hj(", "hjid:111", "hjid:222", "hjsv:6", "hjsv:7",
      "static.hotjar.com/c/hotjar-111.js", "_hjSettings" }

\* r"static\.hotjar\.com" (case-sensitive).
HotjarHostPattern == { "static.hotjar.com/c/hotjar-111.js" }

\* r"hjid:(\d+)" and r"hjsv:(\d+)".
HjidPattern == { "hjid:111", "hjid:222" }
HjsvPattern == { "hjsv:6", "hjsv:7" }

\* What an expression with one group returns for a token it matches; an
\* expression without a group returns the matched text itself.
Group(token) ==
    CASE token = "addEventListener('click'" -> "click"
      [] token = "fbq('init','123')" -> "123"
      [] token = "_linkedin_partner_id='456'" -> "456"
      [] token = "twq('init','abc')" -> "abc"
      [] token = "hjid:111" -> "111"
      [] token = "hjid:222" -> "222"
      [] token = "hjsv:6" -> "6"
      [] token = "hjsv:7" -> "7"
      [] OTHER -> token

\* re.search(pattern, text): is there a match anywhere in the text.
Search(pattern, text) == \E k \in DOMAIN text : text[k] \in pattern

\* re.findall(pattern, text): the matches, left to right.
FindAll(pattern, text) ==
    LET Hit(t) == t \in pattern
        hits == SelectSeq(text, Hit)
    IN  [k \in DOMAIN hits |-> Group(hits[k])]

\* bool(x) of a list or a string: empty is false.
Bool(x) == x # <<>>

----------------------------------------------------------------------------
(* Documents. *)

\* An element of the markup: tag name, attribute names other than src (in
\* order), the src value (<<>>: no src attribute) and the string body
\* (<<>>: no string).
Elem(name, attrs, src, string) ==
    [name |-> name, attrs |-> attrs, src |-> src, string |-> string]

\* The elements documents are built from.
Catalog ==
    << Elem("script", <<>>, <<>>, <<"ga(", "UA-11111-1">>),
       Elem("script", <<>>, <<>>, <<"ga(", "UA-22222-2">>),
       Elem("SCRIPT", <<"async">>,
            <<"googletagmanager.com/gtag/js?id=", "UA-11111-1">>, <<>>),
       Elem("script", <<>>, <<>>, <<"gtag(", "G-ABC123">>),
       Elem("script", <<>>, <<"googletagmanager.com/gtm.js?id=", "GTM-XYZ">>,
            <<>>),
       Elem("script", <<>>, <<>>, <<"hotjar", "hjid:111", "hjsv:6">>),
       Elem("script", <<>>, <<>>, <<"hotjar", "hjid:222", "hjsv:7">>),
       Elem("script", <<"async">>, <<"static.hotjar.com/c/hotjar-111.js">>,
            <<>>),
       Elem("img", <<>>, <<"facebook.com/tr">>, <<>>),
       Elem("script", <<>>, <<>>,
            <<"addEventListener('click'", "track(", "fbq('init','123')">>),
       Elem("button", <<"onClick">>, <<>>, <<"buy">>),
       Elem("a", <<"data-track">>, <<>>, <<"more">>),
       Elem("a", <<"eventname">>, <<>>, <<"more">>),
       Elem("script", <<>>, <<>>, <<"var x=1">>),
       Elem("img", <<"class">>, <<"/img/logo.png">>, <<>>),
       Elem("div", <<"track">>, <<>>, <<"text">>) >>

Elements == { Catalog[k] : k \in DOMAIN Catalog }

RECURSIVE SeqsUpTo(_, _)
\* The sequences over S of length at most n.
SeqsUpTo(S, n) ==
    IF n = 0 THEN { <<>> }
    ELSE LET shorter == SeqsUpTo(S, n - 1)
         IN  shorter \cup { Append(s, e) : s \in shorter, e \in S }

\* The documents detection is run on.
Documents == SeqsUpTo(Elements, MaxElems)

\* str.lower() of the tag and attribute names that occur.
Lower(name) ==
    CASE name = "SCRIPT" -> "script"
      [] name = "onClick" -> "onclick"
      [] OTHER -> name

\* BeautifulSoup(html_content, "html.parser"): the tree of the markup; the
\* parser lower-cases tag and attribute names.
BeautifulSoup(html_content) ==
    [k \in DOMAIN html_content |->
        LET e == html_content[k]
        IN  Elem(Lower(e.name), [a \in DOMAIN e.attrs |-> Lower(e.attrs[a])],
                 e.src, e.string)]

\* tag.attrs: the attribute names of a tag, src included.
AttrNames(tag) == IF tag.src = <<>> THEN tag.attrs ELSE tag.attrs \o <<"src">>

RECURSIVE Concat(_)
\* The concatenation of a sequence of sequences.
Concat(seqs) == IF seqs = <<>> THEN <<>> ELSE Head(seqs) \o Concat(Tail(seqs))

\* str(soup): the serialized document.
Str(soup) ==
    Concat([k \in DOMAIN soup |->
                <<soup[k].name>> \o soup[k].attrs \o soup[k].src
                    \o soup[k].string])

\* soup.find_all(name, string=re.compile(pattern)).
FindAllByString(soup, name, pattern) ==
    LET Hit(tag) == tag.name = name /\ Search(pattern, tag.string)
    IN  SelectSeq(soup, Hit)

\* soup.find_all(name, src=re.compile(pattern)).
FindAllBySrc(soup, name, pattern) ==
    LET Hit(tag) == tag.name = name /\ Search(pattern, tag.src)
    IN  SelectSeq(soup, Hit)

\* soup.find_all("script").
FindAllScripts(soup) ==
    LET Hit(tag) == tag.name = "script" IN SelectSeq(soup, Hit)

\* script.string if script.string else script.get("src", "").
SnippetOf(script) == IF Bool(script.string) THEN script.string ELSE script.src

----------------------------------------------------------------------------
(* The family detectors. *)

\* The implementations of one analytics type: the scripts whose string
\* matches, then the scripts whose src matches, each by its snippet.
GaImplementations(soup, patterns) ==
    LET content_matches == FindAllByString(soup, "script", patterns)
        source_matches == FindAllBySrc(soup, "script", patterns)
        matches == content_matches \o source_matches
    IN  [k \in DOMAIN matches |-> SnippetOf(matches[k])]

\* re.findall(r"UA-\d+-\d+", all_scripts): every occurrence, in order.
ExtractUaIds(all_scripts) == FindAll(UaIdPattern, all_scripts)

detect_google_analytics(soup) ==
    [ implementations |->
        [ universal_analytics |->
              GaImplementations(soup, ga_patterns.universal_analytics),
          gtag |-> GaImplementations(soup, ga_patterns.gtag),
          tag_manager |-> GaImplementations(soup, ga_patterns.tag_manager) ],
      ids |->
        [ ua_ids |-> ExtractUaIds(Str(soup)),
          ga4_ids |-> FindAll(Ga4IdPattern, Str(soup)),
          gtm_ids |-> FindAll(GtmIdPattern, Str(soup)) ] ]

\* attr.startswith("on").
StartsWithOn(attr) == attr \in { "onclick", "onsubmit", "onchange" }

\* any(pattern.replace("data-", "") in attr for pattern in
\* event_patterns["data_attributes"]): "analytics", "track" or "event" is a
\* substring of the attribute name.
HasTrackingMarker(attr) ==
    attr \in { "data-analytics", "data-track", "data-event", "track",
               "eventname" }

\* results["inline_handlers"]: f"{elem.name}: {attr}" for every attribute
\* that starts with "on", element by element.
InlineHandlers(soup) ==
    Concat([k \in DOMAIN soup |->
                LET names == SelectSeq(AttrNames(soup[k]), StartsWithOn)
                IN  [a \in DOMAIN names |-> <<soup[k].name, ": ", names[a]>>]])

\* results["data_attributes"]: f"{elem.name}: {attr}" for every attribute
\* that passes the marker test, element by element.
DataAttributes(soup) ==
    Concat([k \in DOMAIN soup |->
                LET names == SelectSeq(AttrNames(soup[k]), HasTrackingMarker)
                IN  [a \in DOMAIN names |-> <<soup[k].name, ": ", names[a]>>]])

\* for pattern in patterns: results.extend(re.findall(pattern, string)).
ScriptMatches(patterns, string) ==
    Concat([p \in DOMAIN patterns |-> FindAll(patterns[p], string)])

detect_custom_events(soup) ==
    LET scripts == LET HasString(tag) == Bool(tag.string)
                   IN  SelectSeq(FindAllScripts(soup), HasString)
    IN  [ event_listeners |->
              Concat([k \in DOMAIN scripts |->
                          ScriptMatches(StandardEventsPatterns,
                                        scripts[k].string)]),
          inline_handlers |-> InlineHandlers(soup),
          tracking_calls |->
              Concat([k \in DOMAIN scripts |->
                          ScriptMatches(AnalyticsEventsPatterns,
                                        scripts[k].string)]),
          data_attributes |-> DataAttributes(soup) ]

\* The pixels of one platform: img, then iframe, then script elements whose
\* src matches, each as {"type": ..., "src": ...}.
PlatformPixels(soup, patterns) ==
    LET Of(type) ==
            LET found == FindAllBySrc(soup, type, patterns)
            IN  [k \in DOMAIN found |-> [type |-> type, src |-> found[k].src]]
    IN  Of("img") \o Of("iframe") \o Of("script")

detect_pixel_tracking(soup) ==
    [ pixels |->
        [ facebook |-> PlatformPixels(soup, pixel_patterns.facebook),
          linkedin |-> PlatformPixels(soup, pixel_patterns.linkedin),
          twitter |-> PlatformPixels(soup, pixel_patterns.twitter),
          generic |-> PlatformPixels(soup, pixel_patterns.generic) ],
      metadata |->
        [ pixel_ids |-> FindAll(FbPixelIdPattern, Str(soup))
                            \o FindAll(LiPixelIdPattern, Str(soup))
                            \o FindAll(TwPixelIdPattern, Str(soup)) ] ]

\* The position of a tag among the parsed elements of the catalog.
TagIndex(tag) ==
    CHOOSE k \in DOMAIN Catalog : BeautifulSoup(Catalog)[k] = tag

\* Tag.__hash__ is hash(str(tag)); the hash of a str depends on the seed the
\* interpreter process drew at start-up.  The slot of a tag in a set's table
\* is its hash modulo the size of the table.
StrHash(seed, tag) == (TagIndex(tag) * (seed + 1)) % 5

RECURSIVE SetToList(_, _)
\* list(set_of_tags): the tags in the order of their slots.
SetToList(tags, seed) ==
    IF tags = {} THEN <<>>
    ELSE LET Key(t) == <<StrHash(seed, t), TagIndex(t)>>
             Before(a, b) == \/ Key(a)[1] < Key(b)[1]
                             \/ Key(a)[1] = Key(b)[1] /\ Key(a)[2] <= Key(b)[2]
             first == CHOOSE t \in tags : \A u \in tags : Before(t, u)
         IN  <<first>> \o SetToList(tags \ {first}, seed)

\* set(list_of_tags): Tag.__eq__ compares name, attributes and contents.
SetOf(tags) == { tags[k] : k \in DOMAIN tags }

get_hotjar_version(scripts) ==
    LET LastOf(pattern) ==
            LET Hit(script) == Search(pattern, script)
                hits == SelectSeq(scripts, Hit)
            IN  IF hits = <<>> THEN None
                ELSE Head(FindAll(pattern, hits[Len(hits)]))
    IN  [hjid |-> LastOf(HjidPattern), hjsv |-> LastOf(HjsvPattern)]

verify_hotjar_implementation(soup, scripts) ==
    [ has_script |-> Bool(scripts),
      has_site_id |-> Search(HjidPattern, Concat(scripts)),
      has_snippet |-> Bool(FindAllBySrc(soup, "script", HotjarHostPattern)) ]

detect_hotjar(soup, seed) ==
    LET hj_scripts == FindAllByString(soup, "script", HotjarPattern)
        hj_sources == FindAllBySrc(soup, "script", HotjarPattern)
        unique == SetToList(SetOf(hj_scripts \o hj_sources), seed)
        Kept(script) == Bool(script.string) \/ Bool(script.src)
        kept == SelectSeq(unique, Kept)
        all_scripts == [k \in DOMAIN kept |-> SnippetOf(kept[k])]
    IN  [ scripts |-> all_scripts,
          verification |-> verify_hotjar_implementation(soup, all_scripts),
          version_info |-> get_hotjar_version(all_scripts) ]

----------------------------------------------------------------------------
(* The aggregator. *)

\* TrackingCoverage with the Tag Manager implementations counted as Google
\* Analytics and the inline handlers counted as events.
TrackingCoverageWide(tracking_results) ==
    [ ga_implemented |->
          \/ Bool(tracking_results.google_analytics.implementations
                      .universal_analytics)
          \/ Bool(tracking_results.google_analytics.implementations.gtag)
          \/ Bool(tracking_results.google_analytics.implementations
                      .tag_manager),
      events_implemented |->
          \/ Bool(tracking_results.custom_events.event_listeners)
          \/ Bool(tracking_results.custom_events.inline_handlers)
          \/ Bool(tracking_results.custom_events.tracking_calls),
      pixels_implemented |->
          \E platform \in DOMAIN tracking_results.pixel_tracking.pixels :
              Bool(tracking_results.pixel_tracking.pixels[platform]),
      hotjar_implemented |-> Bool(tracking_results.hotjar_tracking.scripts) ]

\* tracking_results["metadata"]["tracking_coverage"].
TrackingCoverage(tracking_results) ==
    [ ga_implemented |->
          \/ Bool(tracking_results.google_analytics.implementations
                      .universal_analytics)
          \/ Bool(tracking_results.google_analytics.implementations.gtag),
      events_implemented |->
          \/ Bool(tracking_results.custom_events.event_listeners)
          \/ Bool(tracking_results.custom_events.tracking_calls),
      pixels_implemented |->
          \E platform \in DOMAIN tracking_results.pixel_tracking.pixels :
              Bool(tracking_results.pixel_tracking.pixels[platform]),
      hotjar_implemented |-> Bool(tracking_results.hotjar_tracking.scripts) ]

\* len(tracking_results["google_analytics"]["ids"]["ua_ids"]) > 1.
HasDuplicateGa(ua_ids) == Len(ua_ids) > 1

\* tracking_results["metadata"]["implementation_quality"].
ImplementationQuality(tracking_results) ==
    [ has_duplicate_ga |->
          HasDuplicateGa(tracking_results.google_analytics.ids.ua_ids),
      mixing_ga_versions |->
          /\ Bool(tracking_results.google_analytics.implementations
                      .universal_analytics)
          /\ Bool(tracking_results.google_analytics.implementations.gtag),
      has_inline_handlers |->
          Bool(tracking_results.custom_events.inline_handlers),
      using_data_attributes |->
          Bool(tracking_results.custom_events.data_attributes),
      hotjar_properly_configured |->
          /\ tracking_results.hotjar_tracking.verification.has_script
          /\ tracking_results.hotjar_tracking.verification.has_site_id ]

\* extract_tracking_code(html_content), run in an interpreter process whose
\* str-hash seed is seed.
extract_tracking_code(html_content, seed) ==
    LET soup == BeautifulSoup(html_content)
        tracking_results ==
            [ google_analytics |-> detect_google_analytics(soup),
              custom_events |-> detect_custom_events(soup),
              pixel_tracking |-> detect_pixel_tracking(soup),
              hotjar_tracking |-> detect_hotjar(soup, seed) ]
    IN  [ google_analytics |-> tracking_results.google_analytics,
          custom_events |-> tracking_results.custom_events,
          pixel_tracking |-> tracking_results.pixel_tracking,
          hotjar_tracking |-> tracking_results.hotjar_tracking,
          metadata |->
            [ total_scripts |-> Len(FindAllScripts(soup)),
              tracking_coverage |-> TrackingCoverage(tracking_results),
              implementation_quality |->
                  ImplementationQuality(tracking_results) ] ]

----------------------------------------------------------------------------
(* The formatter and the two external stages. *)

\* The keys of quality_messages, in the order implementation_quality lists
\* them.
QualityKeys ==
    << "has_duplicate_ga", "mixing_ga_versions", "has_inline_handlers",
       "using_data_attributes", "hotjar_properly_configured" >>

\* _format_quality_metrics: one line per flag that is set.
format_quality_metrics(quality_metrics) ==
    LET IsSet(key) == quality_metrics[key] IN SelectSeq(QualityKeys, IsSet)

\* The f-string of __call__, by the values it interpolates.
FormatOutput(url, analysis, tracking_data) ==
    [ url |-> url,
      analysis |-> analysis,
      universal_analytics |->
          Len(tracking_data.google_analytics.implementations
                  .universal_analytics),
      tag_manager |->
          Len(tracking_data.google_analytics.implementations.tag_manager),
      gtag |-> Len(tracking_data.google_analytics.implementations.gtag),
      event_listeners |-> Len(tracking_data.custom_events.event_listeners),
      inline_handlers |-> Len(tracking_data.custom_events.inline_handlers),
      tracking_calls |-> Len(tracking_data.custom_events.tracking_calls),
      facebook |-> Len(tracking_data.pixel_tracking.pixels.facebook),
      linkedin |-> Len(tracking_data.pixel_tracking.pixels.linkedin),
      twitter |-> Len(tracking_data.pixel_tracking.pixels.twitter),
      generic |-> Len(tracking_data.pixel_tracking.pixels.generic),
      hotjar_scripts |-> Len(tracking_data.hotjar_tracking.scripts),
      properly_configured |->
          /\ tracking_data.hotjar_tracking.verification.has_script
          /\ tracking_data.hotjar_tracking.verification.has_site_id,
      site_id_present |->
          tracking_data.hotjar_tracking.verification.has_site_id,
      version_info |-> tracking_data.hotjar_tracking.version_info,
      quality |->
          format_quality_metrics(
              tracking_data.metadata.implementation_quality) ]

\* What a stage hands back: a value, or a raised exception with its str().
Returned(value) == [raised |-> FALSE, value |-> value]
Raised(exc, message) == [raised |-> TRUE, exc |-> exc, message |-> message]

\* The pages a fetch may deliver.
Pages ==
    { <<>>,
      <<Catalog[3], Catalog[1]>>,
      <<Catalog[6], Catalog[7]>> }

\* What the network does to session.get(url): a response, or an exception.
FetchOutcomes ==
    { [kind |-> "response", status |-> "200", reason |-> "OK", text |-> page] :
          page \in Pages }
    \cup { [kind |-> "response", status |-> "404", reason |-> "Not Found",
            text |-> <<Catalog[14]>>],
           [kind |-> "ClientError", message |-> "Cannot connect to host"],
           [kind |-> "TimeoutError", message |-> ""] }

\* CheckStatus without the test of the status: any response is a page.
CheckStatusAny(response) == Returned(response.text)

\* if response.status != 200: raise ToolError(...).
CheckStatus(response) ==
    IF response.status # "200"
    THEN Raised("ToolError",
                <<"HTTP error ", response.status, ": ", response.reason>>)
    ELSE Returned(response.text)

\* fetch_webpage(url), given what the network did.  The ToolError raised for
\* a status other than 200 is raised inside the try block, and is caught and
\* wrapped by its "except Exception" clause (ToolError is no ClientError).
\* CancelledError is a BaseException: neither except clause catches it.
fetch_webpage(outcome) ==
    LET body == IF outcome.kind = "response" THEN CheckStatus(outcome)
                ELSE Raised(outcome.kind, <<outcome.message>>)
    IN  IF ~body.raised \/ body.exc = "CancelledError" THEN body
        ELSE IF body.exc = "ClientError"
        THEN Raised("ToolError", <<"Failed to fetch webpage: ">> \o body.message)
        ELSE Raised("ToolError", <<"Error fetching webpage: ">> \o body.message)

\* What client.chat.completions.create does: a completion whose message
\* content is a text, the empty text or None, or an exception.
SummarizerOutcomes ==
    { [kind |-> "completion", content |-> c] :
          c \in { "The page loads Universal Analytics.",
                  "The page records sessions with Hotjar.", "", None } }
    \cup { [kind |-> "APIError", message |-> "Rate limit exceeded"] }

\* if content is None: raise ToolError(...); return content.
CheckContent(content) ==
    IF content = None
    THEN Raised("ToolError", <<"OpenAI API returned empty response">>)
    ELSE Returned(content)

\* analyze_with_openai(tracking_data), given what the API did.  Every
\* exception of the try block, the ToolError for a None content included, is
\* wrapped by "except Exception".
analyze_with_openai(outcome) ==
    LET body == IF outcome.kind = "completion"
                THEN CheckContent(outcome.content)
                ELSE Raised(outcome.kind, <<outcome.message>>)
    IN  IF ~body.raised THEN body
        ELSE Raised("ToolError", <<"OpenAI API error: ">> \o body.message)

\* ToolResult(output=..., system=...) and ToolResult(error=...): the fields
\* the call sets.
SuccessResult(url, output) ==
    [ output |-> output,
      system |-> <<"Successfully analyzed event tracking for ", url>> ]
FailureResult(message) == [ error |-> message ]

\* CatchInCall without the "except ToolError" clause in front: a ToolError
\* leaves __call__ as an exception.
CatchInCallUnexpectedOnly(exception) ==
    CASE exception.exc = "ToolError" -> [pc |-> "raised", result |-> <<>>]
      [] exception.exc = "CancelledError" ->
            [pc |-> "cancelled", result |-> <<>>]
      [] OTHER ->
            [pc |-> "returned",
             result |-> <<FailureResult(<<"Unexpected error: ">>
                                            \o exception.message)>>]

\* The except clauses of __call__: what becomes of an exception raised in
\* its try block: where the invocation ends and the results it returns.
\* CancelledError is a BaseException and passes both clauses.
CatchInCall(exception) ==
    CASE exception.exc = "ToolError" ->
            [pc |-> "returned", result |-> <<FailureResult(exception.message)>>]
      [] exception.exc = "CancelledError" ->
            [pc |-> "cancelled", result |-> <<>>]
      [] OTHER ->
            [pc |-> "returned",
             result |-> <<FailureResult(<<"Unexpected error: ">>
                                            \o exception.message)>>]

\* IsFalsy as "url is None": an empty url passes.
IsMissing(url) == url = None

\* not url: the url is missing (None) or empty.
IsFalsy(url) == url = None \/ url = ""

\* The values kwargs.get("url") may have.
Urls == { None, "", "https://a.example", "https://b.example" }

----------------------------------------------------------------------------
(* The state. *)

\* The invocations of __call__ on one tool instance.
Invocations == { 1, 2 }

Seeds == 1 .. MaxSeed

VARIABLES
    hashSeed,       \* the str-hash seed of the interpreter process
    pc,             \* where each invocation of __call__ is
    kwargs,         \* the url each invocation was called with
    html_content,   \* the local html_content of each invocation
    tracking_data,  \* the local tracking_data of each invocation
    results,        \* the ToolResults each invocation has returned
    fetches,        \* how often each invocation has started a fetch
    detections,     \* how often each invocation has run detection
    summaries,      \* how often each invocation has called the summarizer
    fetched,        \* what the network did to each invocation's fetch
    summarized,     \* the summarizer call of each invocation
    document,       \* the text detection is run on directly
    runs            \* the direct runs of detection on that text

vars ==
    << hashSeed, pc, kwargs, html_content, tracking_data, results, fetches,
       detections, summaries, fetched, summarized, document, runs >>

callVars ==
    << pc, kwargs, html_content, tracking_data, results, fetches, detections,
       summaries, fetched, summarized >>

\* A local that is not bound yet, and one bound to a value.
Unbound == <<>>
Bound(value) == <<value>>

\* BindLocal as an assignment to a field of the tool instance, which the
\* invocations share.
BindInstanceField(frames, i, value) == [j \in DOMAIN frames |-> Bound(value)]

\* name = value in the frame of invocation i.
BindLocal(frames, i, value) == [frames EXCEPT ![i] = Bound(value)]

InitCalls ==
    /\ pc = [i \in Invocations |-> "idle"]
    /\ kwargs = [i \in Invocations |-> None]
    /\ html_content = [i \in Invocations |-> Unbound]
    /\ tracking_data = [i \in Invocations |-> Unbound]
    /\ results = [i \in Invocations |-> <<>>]
    /\ fetches = [i \in Invocations |-> 0]
    /\ detections = [i \in Invocations |-> 0]
    /\ summaries = [i \in Invocations |-> 0]
    /\ fetched = [i \in Invocations |-> Unbound]
    /\ summarized = [i \in Invocations |-> Unbound]

Init ==
    /\ hashSeed \in Seeds
    /\ InitCalls
    /\ document = Unbound
    /\ runs = <<>>

----------------------------------------------------------------------------
(* __call__, one action per stretch between two suspensions. *)

\* The invocation ends in one of the except clauses of __call__.
EndWith(i, exception) ==
    LET end == CatchInCall(exception)
    IN  /\ pc' = [pc EXCEPT ![i] = end.pc]
        /\ results' = [results EXCEPT ![i] = @ \o end.result]

\* __call__(url=url) up to the await of fetch_webpage.
Call(i, url) ==
    /\ pc[i] = "idle"
    /\ kwargs' = [kwargs EXCEPT ![i] = url]
    /\ IF IsFalsy(url)
       THEN /\ EndWith(i, Raised("ToolError", <<"URL is required">>))
            /\ UNCHANGED fetches
       ELSE /\ pc' = [pc EXCEPT ![i] = "fetch"]
            /\ fetches' = [fetches EXCEPT ![i] = @ + 1]
            /\ UNCHANGED results
    /\ UNCHANGED << hashSeed, html_content, tracking_data, detections,
                    summaries, fetched, summarized, document, runs >>

\* fetch_webpage resumes with what the network did; on a page, detection
\* runs on it and the summarizer is called next.
FetchReturn(i, outcome) ==
    /\ pc[i] = "fetch"
    /\ fetched' = [fetched EXCEPT ![i] = Bound(outcome)]
    /\ LET page == fetch_webpage(outcome)
       IN  IF page.raised
           THEN /\ EndWith(i, page)
                /\ UNCHANGED << html_content, tracking_data, detections >>
           ELSE /\ html_content' = BindLocal(html_content, i, page.value)
                /\ tracking_data' =
                       BindLocal(tracking_data, i,
                                 extract_tracking_code(page.value, hashSeed))
                /\ detections' = [detections EXCEPT ![i] = @ + 1]
                /\ pc' = [pc EXCEPT ![i] = "summarize"]
                /\ UNCHANGED results
    /\ UNCHANGED << hashSeed, kwargs, fetches, summaries, summarized,
                    document, runs >>

\* The task running the invocation is cancelled while it awaits the fetch,
\* the one place where __call__ is suspended.
Cancel(i) ==
    LET outcome == [kind |-> "CancelledError", message |-> ""]
    IN  /\ pc[i] = "fetch"
        /\ fetched' = [fetched EXCEPT ![i] = Bound(outcome)]
        /\ EndWith(i, fetch_webpage(outcome))
        /\ UNCHANGED << hashSeed, kwargs, html_content, tracking_data, fetches,
                        detections, summaries, summarized, document, runs >>

\* analyze_with_openai with what the API did, then the formatting of the
\* result.
Summarize(i, outcome) ==
    /\ pc[i] = "summarize"
    /\ summaries' = [summaries EXCEPT ![i] = @ + 1]
    /\ summarized' =
           [summarized EXCEPT
               ![i] = Bound([prompt |-> tracking_data[i][1],
                             completion |-> outcome])]
    /\ LET analysis == analyze_with_openai(outcome)
       IN  IF analysis.raised
           THEN EndWith(i, analysis)
           ELSE /\ pc' = [pc EXCEPT ![i] = "returned"]
                /\ results' =
                       [results EXCEPT
                           ![i] = Append(@,
                               SuccessResult(kwargs[i],
                                   FormatOutput(kwargs[i], analysis.value,
                                                tracking_data[i][1])))]
    /\ UNCHANGED << hashSeed, kwargs, html_content, tracking_data, fetches,
                    detections, fetched, document, runs >>

Next ==
    \E i \in Invocations :
        \/ \E url \in Urls : Call(i, url)
        \/ \E outcome \in FetchOutcomes : FetchReturn(i, outcome)
        \/ Cancel(i)
        \/ \E outcome \in SummarizerOutcomes : Summarize(i, outcome)

Spec == Init /\ [][Next]_vars

----------------------------------------------------------------------------
(* Detection run directly on a text, in one interpreter process or two. *)

\* A run of extract_tracking_code in the current process.
Run(html) ==
    [seed |-> hashSeed, report |-> extract_tracking_code(html, hashSeed)]

\* The first run of detection on a text.
Detect(html) ==
    /\ document = Unbound
    /\ document' = Bound(html)
    /\ runs' = <<Run(html)>>
    /\ UNCHANGED << hashSeed, callVars >>

\* Detection is run again on the same text.
Rerun ==
    /\ Len(runs) = 1
    /\ runs' = Append(runs, Run(document[1]))
    /\ UNCHANGED << hashSeed, document, callVars >>

\* The program is started again: the new interpreter process draws its own
\* str-hash seed.
Restart ==
    /\ Len(runs) = 1
    /\ hashSeed' \in Seeds \ { hashSeed }
    /\ UNCHANGED << document, runs, callVars >>

NextDetect ==
    \/ \E html \in Documents : Detect(html)
    \/ Rerun
    \/ Restart

SpecDetect == Init /\ [][NextDetect]_vars

----------------------------------------------------------------------------
(* The invocation contract. *)

\* A success: output and status note set, error unset.
IsSuccess(result) == DOMAIN result = { "output", "system" }

\* A failure: error set, output unset.
IsFailure(result) == DOMAIN result = { "error" }

\* The strings a message is made of.
Parts(message) == { message[k] : k \in DOMAIN message }

\* The invocation has ended.
Ended(i) == pc[i] \notin { "idle", "fetch", "summarize" }

\* The caller cancelled the invocation.
WasCancelled(i) ==
    fetched[i] # Unbound /\ fetched[i][1].kind = "CancelledError"

C2_NoIoWithoutUrl ==
    \A i \in Invocations :
        pc[i] # "idle" /\ kwargs[i] \in { None, "" } =>
            /\ pc[i] = "returned"
            /\ results[i] = << [error |-> <<"URL is required">>] >>
            /\ fetches[i] = 0
            /\ detections[i] = 0
            /\ summaries[i] = 0

\* An invocation called with the empty url has ended.
C2_Witness == \E i \in Invocations : pc[i] = "returned" /\ kwargs[i] = ""

\* The fetch of invocation i failed: a network failure or a status other
\* than 200.
FetchFailed(i) ==
    /\ fetched[i] # Unbound
    /\ \/ fetched[i][1].kind \in { "ClientError", "TimeoutError" }
       \/ fetched[i][1].kind = "response" /\ fetched[i][1].status # "200"

\* The error message carries the status and reason, or the message, of the
\* failed fetch.
CarriesFetchFailure(message, outcome) ==
    IF outcome.kind = "response"
    THEN { outcome.status, outcome.reason } \subseteq Parts(message)
    ELSE outcome.message \in Parts(message)

\* C3: when the fetch fails, the invocation ends in a failure result that
\* carries the underlying status or message, the fetch was started exactly
\* once, and neither detection nor the summarizer has run.
C3_FetchFailureEndsCall ==
    \A i \in Invocations :
        FetchFailed(i) =>
            /\ pc[i] = "returned"
            /\ Len(results[i]) = 1
            /\ IsFailure(results[i][1])
            /\ CarriesFetchFailure(results[i][1].error, fetched[i][1])
            /\ fetches[i] = 1
            /\ detections[i] = 0
            /\ summaries[i] = 0

\* An invocation has ended after its fetch got a 404 response.
C3_Witness ==
    \E i \in Invocations :
        /\ FetchFailed(i)
        /\ fetched[i][1].kind = "response"
        /\ pc[i] = "returned"

\* The summarizer call of invocation i failed: an exception, or a completion
\* whose content is missing or empty.
SummarizerFailed(i) ==
    /\ summarized[i] # Unbound
    /\ \/ summarized[i][1].completion.kind # "completion"
       \/ summarized[i][1].completion.content \in { None, "" }

\* C4: when the summarizer fails, an empty or missing response included, the
\* invocation ends in a failure result; a success is returned only when the
\* summarizer returned narrative text, which is then the analysis of the
\* output, verbatim.
C4_SummarizerFailureEndsCall ==
    \A i \in Invocations :
        /\ SummarizerFailed(i) =>
              pc[i] = "returned" /\ IsFailure(results[i][1])
        /\ pc[i] = "returned" /\ IsSuccess(results[i][1]) =>
              /\ summarized[i] # Unbound
              /\ ~SummarizerFailed(i)
              /\ results[i][1].output.analysis
                     = summarized[i][1].completion.content

----------------------------------------------------------------------------
(* Concurrent invocations on one tool instance. *)

\* What an invocation returns when it runs on its own: from its url, from
\* what the network did to its fetch and from what the API did to its
\* summarizer call (each Unbound when the invocation did not get there).
AloneResults(url, fetch, summary, seed) ==
    IF url \in { None, "" }
    THEN << [error |-> <<"URL is required">>] >>
    ELSE LET page == fetch_webpage(fetch[1])
         IN  IF page.raised
             THEN IF page.exc = "CancelledError" THEN <<>>
                  ELSE << [error |-> page.message] >>
             ELSE LET report == extract_tracking_code(page.value, seed)
                      analysis == analyze_with_openai(summary[1].completion)
                  IN  IF analysis.raised
                      THEN << [error |-> analysis.message] >>
                      ELSE << SuccessResult(url,
                                  FormatOutput(url, analysis.value, report)) >>

\* C8: in every interleaving of two invocations on one tool instance, what
\* an invocation returns depends only on its own url, on its own fetched
\* document and on its own narrative: it is what the invocation returns when
\* it runs alone, and the report handed to its summarizer is the report of
\* its own document.  Whether the other invocation failed or was cancelled
\* changes nothing, and an invocation that waits for its fetch or for its
\* summarizer can always go on.
C8_InvocationsIsolated ==
    \A i \in Invocations :
        /\ Ended(i) =>
              results[i] = AloneResults(kwargs[i], fetched[i], summarized[i],
                                        hashSeed)
        /\ summarized[i] # Unbound =>
              summarized[i][1].prompt
                  = extract_tracking_code(fetched[i][1].text, hashSeed)
        /\ pc[i] = "fetch" =>
              ENABLED (\E outcome \in FetchOutcomes : FetchReturn(i, outcome))
        /\ pc[i] = "summarize" =>
              ENABLED (\E outcome \in SummarizerOutcomes :
                           Summarize(i, outcome))

\* Two invocations with different urls fetched different documents; one has
\* returned a success after the fetch of the other was cancelled or failed.
C8_Witness ==
    \E i, j \in Invocations :
        /\ i # j
        /\ kwargs[i] # kwargs[j]
        /\ pc[i] = "returned" /\ IsSuccess(results[i][1])
        /\ Ended(j) /\ (WasCancelled(j) \/ FetchFailed(j))

----------------------------------------------------------------------------
(* Detection. *)

\* The reports of the direct runs of detection.
Reports == { runs[k].report : k \in DOMAIN runs }

\* A list holds no value twice.
NoDuplicates(list) ==
    \A a, b \in DOMAIN list : list[a] = list[b] => a = b

\* C5: in the result of detection for a tracker family, the snippet
\* collection and the identifier collection hold no duplicates: a snippet or
\* an identifier that occurs twice in the document is held once.
C5_NoDuplicateSnippets ==
    \A report \in Reports :
        /\ \A type \in DOMAIN report.google_analytics.implementations :
               NoDuplicates(report.google_analytics.implementations[type])
        /\ \A ids \in DOMAIN report.google_analytics.ids :
               NoDuplicates(report.google_analytics.ids[ids])
        /\ \A platform \in DOMAIN report.pixel_tracking.pixels :
               NoDuplicates(report.pixel_tracking.pixels[platform])
        /\ NoDuplicates(report.pixel_tracking.metadata.pixel_ids)
        /\ NoDuplicates(report.hotjar_tracking.scripts)

\* The tokens of a document: its serialized text.
TokensOf(html) == Parts(Str(html))

\* The distinct Universal Analytics identifiers of a document.
DistinctUaIds(html) == TokensOf(html) \cap UaIdPattern

\* C6: has_duplicate_ga is true exactly when the document holds more than
\* one distinct Universal Analytics identifier; with a single identifier,
\* however often it occurs, has_duplicate_ga is false.
C6_DuplicateGaIffDistinctIds ==
    \A report \in Reports :
        report.metadata.implementation_quality.has_duplicate_ga
            <=> Cardinality(DistinctUaIds(document[1])) > 1

\* C7: two runs of detection on the same document text give equal reports,
\* the order of every snippet list and the Hotjar hjid/hjsv pair included.
C7_RerunGivesEqualReport ==
    Len(runs) = 2 => runs[1].report = runs[2].report

\* The attribute name carries one of the tracking-intent markers
\* data-analytics, data-track, data-event.
CarriesDataMarker(attr) ==
    attr \in { "data-analytics", "data-track", "data-event" }

\* The tokens some expression of some tracker family matches.
TrackerTokens ==
    UNION { ga_patterns[type] : type \in DOMAIN ga_patterns }
    \cup UNION { pixel_patterns[platform] : platform \in DOMAIN pixel_patterns }
    \cup UNION { StandardEventsPatterns[k] : k \in DOMAIN StandardEventsPatterns }
    \cup UNION { AnalyticsEventsPatterns[k] :
                     k \in DOMAIN AnalyticsEventsPatterns }
    \cup UaIdPattern \cup Ga4IdPattern \cup GtmIdPattern
    \cup FbPixelIdPattern \cup LiPixelIdPattern \cup TwPixelIdPattern
    \cup HotjarPattern \cup HotjarHostPattern \cup HjidPattern \cup HjsvPattern

\* The document holds no tracker of any family: nothing in it is matched by
\* an expression of a family, no attribute is an on* handler and no
\* attribute name carries a tracking-intent marker.
TrackerFree(html) ==
    /\ TokensOf(html) \cap TrackerTokens = {}
    /\ \A k \in DOMAIN html : \A a \in DOMAIN html[k].attrs :
           /\ ~StartsWithOn(Lower(html[k].attrs[a]))
           /\ ~CarriesDataMarker(Lower(html[k].attrs[a]))

\* Every coverage flag and every quality flag of the report is false and
\* every collection of every family is empty.
NothingDetected(report) ==
    /\ \A flag \in DOMAIN report.metadata.tracking_coverage :
           ~report.metadata.tracking_coverage[flag]
    /\ \A flag \in DOMAIN report.metadata.implementation_quality :
           ~report.metadata.implementation_quality[flag]
    /\ \A type \in DOMAIN report.google_analytics.implementations :
           report.google_analytics.implementations[type] = <<>>
    /\ \A ids \in DOMAIN report.google_analytics.ids :
           report.google_analytics.ids[ids] = <<>>
    /\ \A list \in DOMAIN report.custom_events :
           report.custom_events[list] = <<>>
    /\ \A platform \in DOMAIN report.pixel_tracking.pixels :
           report.pixel_tracking.pixels[platform] = <<>>
    /\ report.pixel_tracking.metadata.pixel_ids = <<>>
    /\ report.hotjar_tracking.scripts = <<>>
    /\ report.hotjar_tracking.version_info = [hjid |-> None, hjsv |-> None]

\* C9: for an empty or tracker-free document, every coverage flag and every
\* quality flag of the report is false and every family's snippet and
\* identifier collections are empty.
C9_TrackerFreeDetectsNothing ==
    \A report \in Reports :
        TrackerFree(document[1]) => NothingDetected(report)

\* C10: in every report each coverage flag equals its rule over the
\* report's own detection results: ga_implemented iff the Universal
\* Analytics or the gtag snippets are non-empty (Tag Manager alone does not
\* set it), events_implemented iff the event listeners or the tracking calls
\* are non-empty (inline handlers alone do not set it), pixels_implemented
\* iff some pixel family has snippets, hotjar_implemented iff the Hotjar
\* snippets are non-empty.
C10_CoverageFlagsFollowRules ==
    \A report \in Reports :
        LET coverage == report.metadata.tracking_coverage
            ga == report.google_analytics.implementations
            events == report.custom_events
            pixels == report.pixel_tracking.pixels
        IN  /\ coverage.ga_implemented
                   <=> (Len(ga.universal_analytics) > 0 \/ Len(ga.gtag) > 0)
            /\ coverage.events_implemented
                   <=> (Len(events.event_listeners) > 0
                            \/ Len(events.tracking_calls) > 0)
            /\ coverage.pixels_implemented
                   <=> (Len(pixels.facebook) > 0 \/ Len(pixels.linkedin) > 0
                            \/ Len(pixels.twitter) > 0
                            \/ Len(pixels.generic) > 0)
            /\ coverage.hotjar_implemented
                   <=> Len(report.hotjar_tracking.scripts) > 0

\* A report of a document with Tag Manager and an inline handler and with
\* neither Google Analytics nor events: both flags are false.
C10_Witness ==
    \E report \in Reports :
        /\ Len(report.google_analytics.implementations.tag_manager) > 0
        /\ Len(report.custom_events.inline_handlers) > 0
        /\ ~report.metadata.tracking_coverage.ga_implemented
        /\ ~report.metadata.tracking_coverage.events_implemented

\* C11: using_data_attributes is true exactly when some element of the
\* document has an attribute whose name carries one of the tracking-intent
\* markers data-analytics, data-track, data-event; an element whose
\* attribute names carry none of them (an attribute named track or
\* eventname, say) contributes no data attribute match.
C11_DataAttributesIffMarker ==
    \A report \in Reports :
        LET html == document[1]
            matches == report.custom_events.data_attributes
        IN  /\ report.metadata.implementation_quality.using_data_attributes
                   <=> \E k \in DOMAIN html : \E a \in DOMAIN html[k].attrs :
                           CarriesDataMarker(Lower(html[k].attrs[a]))
            /\ \A m \in DOMAIN matches : CarriesDataMarker(matches[m][3])

====
